---- MODULE Spec2Model ----
\* The RAG agent of agents/data-processing: the LightRAG instance pool
\* (rag/pool.py), the document pipeline (processor/pipeline.py) and the
\* Kafka consumption loop (consumer/kafka_consumer.py).
\*
\* asyncio runs one coroutine at a time and switches only at an await that
\* suspends, so every action below is the code between two suspension points.
EXTENDS Integers, Sequences, FiniteSets, TLC

\* ---------------------------------------------------------------- bounds

\* Settings (app/config.py), scaled down.
max_instances == 2
max_workers == 2
ttl_seconds == 0

\* The clock stops at MaxTime; at most MaxCalls process() calls are made by
\* the direct callers.
MaxTime == 1
MaxCalls == 4

\* The topic: NumPartitions partitions of PartLen records each.
NumPartitions == 1
PartLen == 3

\* The agent is followed over its first MaxDeliveries records.
MaxDeliveries == 3

\* Beside release, the reaper and close_all the direct callers of the pool
\* specifications make at most PoolCalls process() calls.
PoolCalls == 3

\* The collection ids of the jobs.
Tenants == {"t-1", "t_1", "t2"}
Workers == {"w1", "w2"}

\* Who runs pool code: the callers of process() (two tasks, a third one
\* where the semaphore is to be saturated, and the consumer loop), the idle
\* reaper, a caller of release() and a caller of close_all().
Tasks == Workers \cup {"w3"}
Callers == Tasks \cup {"loop"}
PoolClients == Callers \cup {"reaper", "releaser", "closer", "sig"}

Partitions == 1..NumPartitions

\* Python's None, where the other values are records.
None == [none |-> TRUE]
Free == "free"

\* PageContent (models/messages.py): text and html; encoding of the html.
Contents ==
    { [text |-> "hello world", html |-> "", encoding |-> "gzip+base64"],
      [text |-> "", html |-> "", encoding |-> "gzip+base64"],
      [text |-> "", html |-> "<p>hi</p>", encoding |-> "plain"],
      [text |-> "", html |-> "<script>x</script>", encoding |-> "plain"],
      [text |-> "", html |-> "H4sI:hi", encoding |-> "gzip+base64"],
      [text |-> "", html |-> "<p>hi</p>", encoding |-> "gzip+base64"] }

Error == "error"

\* IndexingJobMessage.url
Urls == {"https://x/doc", "https://x/other"}

Jobs == [collection_id : Tenants, url : Urls, content : Contents \cup {None}]

\* The jobs of the direct callers and of the topic: of one url, with text,
\* or with neither text nor html.
PoolJobs ==
    {j \in Jobs : j.url = "https://x/doc" /\ j.content \in Contents /\ j.content.html = ""}

\* PageContent of every shape: with and without text, with html that is
\* plain, compressed or corrupt, under a known or an unknown encoding.
ExtractContents ==
    [text : {"", "hello world"},
     html : {"", "<p>hi</p>", "<script>x</script>", "H4sI:hi", "H4sI:empty", "!corrupt"},
     encoding : {"plain", "gzip+base64", "zstd"}]

\* The jobs of one tenant and one url with such a content, or with none.
ExtractJobs ==
    [collection_id : {"t2"}, url : {"https://x/doc"}, content : ExtractContents \cup {None}]

VARIABLES
    now,            \* time.time()
    instances,      \* LightRAGPool.instances: the OrderedDict, oldest first
    lock,           \* LightRAGPool._lock: its holder, or Free
    expired,        \* cleanup_expired: its list of expired collection ids
    todo,           \* what the loop of cleanup_expired or close_all has yet to visit
    cleaned,        \* the last value cleanup_expired returned
    cleanup_at,     \* cleanup_expired: its local now, while it runs
    nextRag,        \* LightRAG objects constructed so far
    finalized,      \* finalize_storages() invocations per LightRAG object
    semaphore,      \* DocumentProcessor._semaphore._value
    pc,             \* where each coroutine is suspended
    job,            \* the job of each process() call
    held,           \* the LightRAG object each process() call works with
    result,         \* the ProcessingResult that process() returned last, until
                    \* the iteration of consume() that asked for it ends
    jobs_processed, \* DocumentProcessor._jobs_processed
    jobs_failed,    \* DocumentProcessor._jobs_failed
    ainsert,        \* per process() call: the ainsert calls it has issued
    docs,           \* LightRAG storage: per workspace, the documents by id
    evicted,        \* history: the collection id that get() evicted last
    lru,            \* history: the pooled collection ids, least recently got first
    warned,         \* history: whether the finalize_storages() that the pool
                    \* awaited last raised (the warning was logged), until
                    \* the next operation of the pool takes the lock
    transport,      \* IndexingJobConsumer.consumer: none, open, closing or closed
    running,        \* IndexingJobConsumer._running
    position,       \* per partition: the offset of the next record to deliver
    committed,      \* per partition: the committed offset
    cur,            \* consume(): the message of the current iteration
    rec             \* history, per partition and delivered record: what became
                    \* of it, the commit() calls issued for it, one being awaited

poolVars == <<instances, lock, expired, todo, cleaned, cleanup_at, nextRag, finalized>>
procVars == <<semaphore, job, held, result, jobs_processed, jobs_failed>>
backendVars == <<ainsert, docs>>
histVars == <<evicted, lru, warned>>
kafkaVars == <<transport, running, position, committed, cur>>
consVars == <<kafkaVars, rec>>
vars == <<now, poolVars, procVars, consVars, pc, backendVars, histVars>>

Rags == 1..(MaxCalls + NumPartitions * PartLen)

\* ------------------------------------------------------------ OrderedDict

Keys(d) == {d[i].collection_id : i \in 1..Len(d)}

IndexOf(d, cid) == CHOOSE i \in 1..Len(d) : d[i].collection_id = cid

RemoveAt(d, i) == SubSeq(d, 1, i - 1) \o SubSeq(d, i + 1, Len(d))

\* The sequence s without the element x.
Without(s, x) == SelectSeq(s, LAMBDA y : y # x)

\* Mutation: pop removes the oldest entry, whatever the key.
PopOldest(d, cid) == Tail(d)

\* OrderedDict.pop(key)
Pop(d, cid) == RemoveAt(d, IndexOf(d, cid))

\* Mutation: a hit leaves the entry where it is.
NotMoved(d, cid) == d

\* OrderedDict.move_to_end(key)
MoveToEnd(d, cid) == Append(Pop(d, cid), d[IndexOf(d, cid)])

\* d[key] = value: a new key goes last, an existing key keeps its place.
SetItem(d, w) ==
    IF w.collection_id \in Keys(d)
        THEN [d EXCEPT ![IndexOf(d, w.collection_id)] = w]
        ELSE Append(d, w)

\* LightRAGWrapper(rag=rag, collection_id=collection_id)
LightRAGWrapper(rag, cid) ==
    [collection_id |-> cid, rag |-> rag, last_used |-> now]

\* ---------------------------------------------------------------- backend

\* The characters of a collection id.
Chars(cid) ==
    CASE cid = "t-1" -> <<"t", "-", "1">>
      [] cid = "t_1" -> <<"t", "_", "1">>
      [] cid = "t2" -> <<"t", "2">>

\* str.replace(old, new), on the characters.
Replace(str, old, new) == [i \in 1..Len(str) |-> IF str[i] = old THEN new ELSE str[i]]

\* workspace_name = f"ws_{collection_id.replace('-', '_')}"
workspace_name(cid) == <<"w", "s", "_">> \o Replace(Chars(cid), "-", "_")

Workspaces == {workspace_name(cid) : cid \in Tenants}

\* ------------------------------------------------------------------ Init

Init ==
    /\ now = 0
    /\ instances = <<>>
    /\ lock = Free
    /\ expired = <<>>
    /\ todo = <<>>
    /\ cleaned = 0
    /\ cleanup_at = 0
    /\ nextRag = 0
    /\ finalized = [h \in Rags |-> 0]
    /\ semaphore = max_workers
    /\ pc = [p \in PoolClients |-> "idle"]
    /\ job = [c \in Callers |-> None]
    /\ held = [c \in Callers |-> 0]
    /\ result = None
    /\ jobs_processed = 0
    /\ jobs_failed = 0
    /\ ainsert = [c \in Callers |-> <<>>]
    /\ docs = [ws \in Workspaces |-> {}]
    /\ evicted = ""
    /\ warned = FALSE
    /\ lru = <<>>
    /\ transport = "none"
    /\ running = FALSE
    /\ position = [p \in Partitions |-> 0]
    /\ committed = [p \in Partitions |-> 0]
    /\ cur = None
    /\ rec = [p \in Partitions |-> <<>>]

\* time.time() moves on while coroutines are suspended.
Tick ==
    /\ now < MaxTime
    /\ now' = now + 1
    /\ UNCHANGED <<poolVars, procVars, consVars, pc, histVars>>
    /\ UNCHANGED backendVars

\* --------------------------------------------------------- html_cleaner

\* base64.b64decode + gzip: the blobs that decode, and what they decode to.
Gunzip(blob) ==
    CASE blob = "H4sI:hi" -> "<p>hi</p>"
      [] blob = "H4sI:empty" -> "<script>x</script>"
      [] OTHER -> Error

\* decompress_html(compressed, encoding); Error stands for the ValueError.
decompress_html(compressed, encoding) ==
    IF encoding = "plain" \/ compressed = "" THEN compressed
    ELSE IF encoding = "gzip+base64" THEN Gunzip(compressed)
    ELSE Error

\* clean_html_to_text(html): scripts, styles and tags removed.
clean_html_to_text(html) ==
    CASE html = "" -> ""
      [] html = "<p>hi</p>" -> "hi"
      [] html = "<script>x</script>" -> ""
      [] OTHER -> html

\* Mutation: the html is decompressed before the text is looked at.
ExtractHtmlFirst(j) ==
    IF j.content = None THEN Error
    ELSE IF j.content.html # "" /\ decompress_html(j.content.html, j.content.encoding) = Error
        THEN Error
    ELSE IF j.content.text # "" THEN j.content.text
    ELSE IF j.content.html # ""
        THEN clean_html_to_text(decompress_html(j.content.html, j.content.encoding))
    ELSE Error

\* DocumentProcessor._extract_text(job): the text, or Error when it raises.
extract_text(j) ==
    IF j.content = None THEN Error
    ELSE IF j.content.text # "" THEN j.content.text
    ELSE IF j.content.html # ""
        THEN LET html == decompress_html(j.content.html, j.content.encoding)
             IN IF html = Error THEN Error ELSE clean_html_to_text(html)
    ELSE Error

\* Mutation: the identifier differs from call to call.
DocIdPerCall(j) == j.url \o "#" \o ToString(jobs_processed)

\* doc_id = job.url
doc_id(j) == j.url

\* LightRAG storage after a document is stored in the workspace ws: the
\* storage keeps one document per id.
Stored(ws, id, text) ==
    [docs EXCEPT ![ws] = {d \in @ : d.doc_id # id} \cup {[doc_id |-> id, text |-> text]}]

\* "await rag.ainsert(doc_id, text)" is called by c on the LightRAG object
\* of the wrapper w, which works on the workspace it was constructed for.
CallInsert(c, w) ==
    ainsert' = [ainsert EXCEPT ![c] =
                  Append(@, [rag |-> w.rag,
                             workspace |-> workspace_name(w.collection_id),
                             doc_id |-> doc_id(job[c]),
                             text |-> extract_text(job[c])])]

\* ---------------------------------------------------------------- process

\* process() calls made so far: those that returned and those under way.
Calls == jobs_processed + jobs_failed + Cardinality({c \in Callers : pc[c] # "idle"})

\* process(job) is called: the caller waits for the semaphore.
ProcessCall(c, j) ==
    /\ pc[c] = "idle"
    /\ Calls < MaxCalls
    /\ job' = [job EXCEPT ![c] = j]
    /\ pc' = [pc EXCEPT ![c] = "sem_wait"]
    /\ UNCHANGED <<kafkaVars, rec, now, poolVars, semaphore, held, result, jobs_processed, jobs_failed, histVars>>
    /\ UNCHANGED backendVars

\* ------------------------------------------------------------- consume()

\* The history entry of the current message.
Current == [p |-> cur.partition, i |-> cur.offset + 1]

\* Mutation: commit() is reached only when the result reports a failure.
CommitsOnFailureOnly(success) == IF success THEN 0 ELSE 1

\* consume() after "await self.message_handler(job)" returned: the value is
\* dropped and "await self.consumer.commit()" is reached.
CommitsIssued(success) == 1

\* The handler returned to consume(); success is what its result says.
HandlerReturned(success) ==
    /\ rec' = [rec EXCEPT ![Current.p][Current.i] =
                 [status |-> IF success THEN "success" ELSE "failure",
                  commits |-> @.commits + CommitsIssued(success),
                  pending |-> CommitsIssued(success) > 0]]
    /\ pc' = [pc EXCEPT !["loop"] =
                 IF CommitsIssued(success) > 0 THEN "committing" ELSE "fetching"]

\* What a record of the topic can hold: a job, or a payload that decodes but
\* is no IndexingJobMessage (a required field is missing).
Messages == [kind : {"job"}, job : PoolJobs] \cup {[kind |-> "invalid"]}

\* Records delivered so far.
Delivered == Cardinality({r \in Partitions \X (1..PartLen) : r[2] <= position[r[1]]})

\* IndexingJobConsumer.stop(): _running is cleared, no task is waited for
\* (_tasks is never added to) and the AIOKafkaConsumer, if any, is stopped.
StopConsumer ==
    /\ running' = FALSE
    /\ transport' = IF transport = "none" THEN "none" ELSE "closed"

\* run(): start() opens the consumer and sets _running, then consume()
\* awaits the first message.
Start ==
    /\ pc["loop"] = "idle"
    /\ transport' = "open"
    /\ running' = TRUE
    /\ pc' = [pc EXCEPT !["loop"] = "fetching"]
    /\ UNCHANGED <<position, committed, cur, rec>>
    /\ UNCHANGED <<now, poolVars, procVars, histVars>>
    /\ UNCHANGED backendVars

\* Mutation: the next message is taken while the handler or the commit of
\* the current one is still awaited.
MessageNotAwaited == pc["loop"] \in {"fetching", "handling", "inserting", "committing"}

\* consume() awaits the next message of "async for".
AwaitingMessage == pc["loop"] = "fetching"

\* Mutation: the loop does not test _running.
NeverBreaks == FALSE

\* "if not self._running: break"
Breaks == ~running

\* The iterator delivers the next record of partition p, holding m. After
\* stop() the loop breaks, consume() returns and run() calls stop(); a
\* payload that is no IndexingJobMessage raises in the try block and is
\* logged; a job is handed to the handler, which starts at pc handler.
Deliver(p, m, handler) ==
    /\ AwaitingMessage
    /\ transport \in {"open", "closing"}
    /\ position[p] < PartLen
    /\ position' = [position EXCEPT ![p] = @ + 1]
    /\ cur' = [partition |-> p, offset |-> position[p]]
    /\ IF Breaks
        THEN /\ rec' = [rec EXCEPT ![p] = Append(@, [status |-> "dropped", commits |-> 0, pending |-> FALSE])]
             /\ StopConsumer
             /\ pc' = [pc EXCEPT !["loop"] = "ended"]
             /\ UNCHANGED job
       ELSE IF m.kind = "invalid"
        THEN /\ rec' = [rec EXCEPT ![p] = Append(@, [status |-> "invalid", commits |-> 0, pending |-> FALSE])]
             /\ UNCHANGED <<pc, job, running, transport>>
        ELSE /\ rec' = [rec EXCEPT ![p] = Append(@, [status |-> "dispatched", commits |-> 0, pending |-> FALSE])]
             /\ job' = [job EXCEPT !["loop"] = m.job]
             /\ pc' = [pc EXCEPT !["loop"] = handler]
             /\ UNCHANGED <<running, transport>>
    /\ UNCHANGED committed
    /\ UNCHANGED <<now, poolVars, histVars>>
    /\ UNCHANGED <<semaphore, held, result, jobs_processed, jobs_failed>>
    /\ UNCHANGED backendVars

\* The next record of partition p does not decode (value_deserializer
\* raises inside the iterator), or the fetch raises a KafkaError: either
\* leaves "async for", consume() raises and run() calls stop().
FetchRaised(p, why) ==
    /\ AwaitingMessage
    /\ transport \in {"open", "closing"}
    /\ position[p] < PartLen
    /\ cur' = [partition |-> p, offset |-> position[p], raised |-> why]
    /\ StopConsumer
    /\ pc' = [pc EXCEPT !["loop"] = "crashed"]
    /\ UNCHANGED <<position, committed, rec>>
    /\ UNCHANGED <<now, poolVars, procVars, histVars>>
    /\ UNCHANGED backendVars

\* The consumer was stopped: "async for" ends, consume() returns and run()
\* calls stop().
FetchStopped ==
    /\ AwaitingMessage
    /\ transport = "closed"
    /\ StopConsumer
    /\ pc' = [pc EXCEPT !["loop"] = "ended"]
    /\ UNCHANGED <<position, committed, cur, rec>>
    /\ UNCHANGED <<now, poolVars, procVars, histVars>>
    /\ UNCHANGED backendVars

\* Mutation: commit() stores the offset after the next record.
OffsetsAhead == [p \in Partitions |-> IF position[p] < PartLen THEN position[p] + 1 ELSE position[p]]

\* consumer.commit() stores the consumed position of every partition.
ConsumedOffsets == position

\* "await self.consumer.commit()" returned.
Committed ==
    /\ pc["loop"] = "committing"
    /\ committed' = ConsumedOffsets
    /\ rec' = [rec EXCEPT ![Current.p][Current.i].pending = FALSE]
    /\ pc' = [pc EXCEPT !["loop"] = "fetching"]
    /\ result' = None
    /\ UNCHANGED <<transport, running, position, cur>>
    /\ UNCHANGED <<now, poolVars, histVars>>
    /\ UNCHANGED <<semaphore, job, held, jobs_processed, jobs_failed>>
    /\ UNCHANGED backendVars

\* "await self.consumer.commit()" raised: the except Exception branch of
\* the try block logs it and the loop goes on.
CommitFailed ==
    /\ pc["loop"] = "committing"
    /\ rec' = [rec EXCEPT ![Current.p][Current.i].pending = FALSE]
    /\ pc' = [pc EXCEPT !["loop"] = "fetching"]
    /\ result' = None
    /\ UNCHANGED kafkaVars
    /\ UNCHANGED <<now, poolVars, histVars>>
    /\ UNCHANGED <<semaphore, job, held, jobs_processed, jobs_failed>>
    /\ UNCHANGED backendVars

\* A message_handler other than DocumentProcessor.process returned.
HandlerDone(success) ==
    /\ pc["loop"] = "handling"
    /\ job' = [job EXCEPT !["loop"] = None]
    /\ HandlerReturned(success)
    /\ UNCHANGED kafkaVars
    /\ UNCHANGED <<now, poolVars, histVars>>
    /\ UNCHANGED <<semaphore, held, result, jobs_processed, jobs_failed>>
    /\ UNCHANGED backendVars

\* The message_handler raised: the except Exception branch logs it, no
\* commit is issued and the loop goes on.
HandlerRaised ==
    /\ pc["loop"] = "handling"
    /\ job' = [job EXCEPT !["loop"] = None]
    /\ rec' = [rec EXCEPT ![Current.p][Current.i].status = "raised"]
    /\ pc' = [pc EXCEPT !["loop"] = "fetching"]
    /\ UNCHANGED kafkaVars
    /\ UNCHANGED <<now, poolVars, histVars>>
    /\ UNCHANGED <<semaphore, held, result, jobs_processed, jobs_failed>>
    /\ UNCHANGED backendVars

\* ProcessingResult (models/messages.py)
ProcessingResult(success, error_message, text_length) ==
    [success |-> success, error_message |-> error_message, text_length |-> text_length]

\* process() returns res to its caller c; leaving "async with self._semaphore"
\* has given the slot back.
Return(c, res) ==
    /\ job' = [job EXCEPT ![c] = None]
    /\ result' = res
    /\ IF c = "loop"
        THEN HandlerReturned(res.success)
        ELSE /\ pc' = [pc EXCEPT ![c] = "idle"]
             /\ UNCHANGED rec

\* Mutation: the counter is left as it is.
NotCounted(n) == n

\* self._jobs_processed += 1, self._jobs_failed += 1
Counted(n) == n + 1

\* The except branch of _process_internal: count the failure, return it.
Fail(c, error_message) ==
    /\ jobs_failed' = Counted(jobs_failed)
    /\ Return(c, ProcessingResult(FALSE, error_message, 0))

\* What the steps of _process_internal raise: the ValueError of
\* _extract_text, of decompress_html and of the empty text, and whatever
\* the pool and LightRAG raise.
Exceptions == {"ValueError", "Exception"}

\* Mutation: the except clause names ValueError.
CaughtValueErrorOnly(exc) == exc = "ValueError"

\* "except Exception" catches every exception the steps raise.
Caught(exc) == exc \in Exceptions

\* An exception leaves process(): the caller c gets it, the consumer loop
\* in the except Exception branch of consume().
Escape(c) ==
    /\ job' = [job EXCEPT ![c] = None]
    /\ IF c = "loop"
        THEN /\ rec' = [rec EXCEPT ![Current.p][Current.i].status = "raised"]
             /\ pc' = [pc EXCEPT !["loop"] = "fetching"]
        ELSE /\ pc' = [pc EXCEPT ![c] = "raised"]
             /\ UNCHANGED rec
    /\ UNCHANGED <<result, jobs_failed>>

\* A step inside the try block of _process_internal raises exc.
Raised(c, exc, error_message) ==
    IF Caught(exc) THEN Fail(c, error_message) ELSE Escape(c)

\* Mutation: leaving the block keeps the slot.
SlotKept(n) == n

\* Leaving "async with self._semaphore", by return or by an exception,
\* releases the slot.
SlotBack(n) == n + 1

\* Mutation: entering the block takes two slots.
SlotsTaken(n) == n - 2

\* Entering "async with self._semaphore" takes one slot.
SlotTaken(n) == n - 1

\* Mutation: the semaphore is not waited for.
SlotNotAwaited == TRUE

\* The semaphore has a free slot.
SlotFree == semaphore > 0

\* Mutation: the extracted text is not tested.
NotTested(text) == FALSE

\* "if not text": the extracted text is empty.
Empty(text) == text = ""

\* "async with self._semaphore" is entered and _process_internal runs up to
\* "await self.rag_pool.get(...)": the text is extracted, and a job without
\* text fails before the pool is asked.
Enter(c) ==
    /\ pc[c] = "sem_wait"
    /\ SlotFree
    /\ LET text == extract_text(job[c])
       IN IF text = Error \/ Empty(text)
            THEN /\ Raised(c, "ValueError", IF text = Error THEN "extract" ELSE "No text content")
                 /\ UNCHANGED semaphore
            ELSE /\ semaphore' = SlotTaken(semaphore)
                 /\ pc' = [pc EXCEPT ![c] = "get_wait"]
                 /\ UNCHANGED <<job, result, jobs_failed, rec>>
    /\ UNCHANGED <<kafkaVars, now, poolVars, held, jobs_processed, histVars>>
    /\ UNCHANGED backendVars

\* ------------------------------------------------------------ LightRAGPool

\* Mutation: the lock is not waited for.
LockNotAwaited == TRUE

\* asyncio.Lock: "async with self._lock" is entered only when nobody holds it.
LockFree == lock = Free

\* Mutation: the lock is given back at the first await inside the block.
NotHeld(p) == Free

\* Inside "async with self._lock" the lock stays with p while p awaits.
Holder(p) == p

\* Mutation: the hit returns the oldest entry.
LookupOldest(d, cid) == d[1]

\* wrapper = self.instances[collection_id]
Lookup(d, cid) == d[IndexOf(d, cid)]

\* Mutation: the hit sets last_used back to the epoch.
TouchEpoch(d, cid) == [d EXCEPT ![IndexOf(d, cid)].last_used = 0]

\* Mutation: the hit refreshes last_used of every entry.
TouchAll(d, cid) == [i \in 1..Len(d) |-> [d[i] EXCEPT !.last_used = now]]

\* wrapper.last_used = time.time()
Touch(d, cid) == [d EXCEPT ![IndexOf(d, cid)].last_used = now]

\* get(), the hit: move to the end, refresh last_used, return wrapper.rag;
\* the caller goes on to "await rag.ainsert(doc_id, text)".
GetHit(c) ==
    /\ pc[c] = "get_wait"
    /\ LockFree
    /\ LET cid == job[c].collection_id
       IN /\ cid \in Keys(instances)
          /\ LET d == Touch(MoveToEnd(instances, cid), cid)
             IN /\ instances' = d
                /\ held' = [held EXCEPT ![c] = Lookup(d, cid).rag]
                /\ CallInsert(c, Lookup(d, cid))
          /\ lru' = Append(Without(lru, cid), cid)
    /\ pc' = [pc EXCEPT ![c] = "inserting"]
    /\ UNCHANGED <<kafkaVars, rec, now, lock, expired, todo, cleaned, cleanup_at, nextRag, finalized, evicted>>
    /\ warned' = FALSE
    /\ UNCHANGED <<semaphore, job, result, jobs_processed, jobs_failed>>
    /\ UNCHANGED docs

\* Mutation: the eviction loop tests ">" where the code tests ">=".
AtCapacityOffByOne(d) == Len(d) > max_instances

\* Mutation: the eviction loop starts one entry below capacity.
AtCapacityEarly(d) == Len(d) >= max_instances - 1

\* The pool is at capacity: the eviction loop of get() runs once more.
AtCapacity(d) == Len(d) >= max_instances

\* Mutation: the oldest entry is looked at and left in the dict.
PopItemKept(d) == d

\* self.instances.popitem(last=False): the dict without its oldest entry.
popitem(d) == Tail(d)

\* get(), from the while loop on, with the lock held by c: pop the oldest
\* entry and await its finalize_storages(), or, below capacity, construct
\* the LightRAG object and await its initialize_storages().
EvictOrCreate(c) ==
    IF AtCapacity(instances)
        THEN /\ instances' = popitem(instances)
             /\ finalized' = [finalized EXCEPT ![Head(instances).rag] = @ + 1]
             /\ evicted' = Head(instances).collection_id
             /\ lru' = Without(lru, Head(instances).collection_id)
             /\ pc' = [pc EXCEPT ![c] = "get_evict"]
             /\ UNCHANGED <<nextRag, held>>
        ELSE /\ nextRag' = nextRag + 1
             /\ held' = [held EXCEPT ![c] = nextRag + 1]
             /\ pc' = [pc EXCEPT ![c] = "get_create"]
             /\ UNCHANGED <<instances, finalized, evicted, lru>>

\* get(), the miss: the lock is taken and kept while get() awaits.
GetMiss(c) ==
    /\ pc[c] = "get_wait"
    /\ LockFree
    /\ job[c].collection_id \notin Keys(instances)
    /\ lock' = Holder(c)
    /\ EvictOrCreate(c)
    /\ warned' = FALSE
    /\ UNCHANGED <<kafkaVars, rec, now, expired, todo, cleaned, cleanup_at>>
    /\ UNCHANGED <<semaphore, job, result, jobs_processed, jobs_failed>>
    /\ UNCHANGED backendVars

\* Mutation: the lock stays with the caller whose get() raised.
StillLocked(c) == c

\* Leaving "async with self._lock" by an exception releases the lock.
Unlocked(c) == Free

\* Mutation: no except clause around finalize_storages().
NotSwallowed(exc) == FALSE

\* "except Exception as e: logger.warning(...)" around every
\* finalize_storages() of the pool: the exception is logged and dropped.
Swallowed(exc) == exc \in Exceptions

\* What "await wrapper.rag.finalize_storages()" ends with: it returns, or
\* it raises.
Outcomes == {"returned", "Exception"}

\* The operation goes on after finalize_storages() ended with out.
GoesOn(out) == out = "returned" \/ Swallowed(out)

\* finalize_storages() of the evicted instance returned or raised: with
\* the exception logged, back to the loop condition; an exception that
\* leaves get() releases the lock and reaches the except branch of
\* _process_internal.
GetEvicted(c, out) ==
    /\ pc[c] = "get_evict"
    /\ IF GoesOn(out)
        THEN /\ EvictOrCreate(c)
             /\ warned' = (out # "returned")
             /\ UNCHANGED <<rec, lock, semaphore, job, result, jobs_failed>>
        ELSE /\ lock' = Unlocked(c)
             /\ semaphore' = SlotBack(semaphore)
             /\ Raised(c, out, "finalize")
             /\ UNCHANGED <<instances, nextRag, finalized, held, evicted, lru, warned>>
    /\ UNCHANGED <<kafkaVars, now, expired, todo, cleaned, cleanup_at>>
    /\ UNCHANGED jobs_processed
    /\ UNCHANGED backendVars

\* Mutation: get() returns with the lock still taken.
KeptOnReturn(c) == c

\* "return wrapper.rag" leaves "async with self._lock": the lock is free.
Leave(c) == Free

\* _create_instance returned: the wrapper is stored, the lock released and
\* the caller goes on to "await rag.ainsert(doc_id, text)".
GetCreated(c) ==
    /\ pc[c] = "get_create"
    /\ instances' = SetItem(instances, LightRAGWrapper(held[c], job[c].collection_id))
    /\ lock' = Leave(c)
    /\ lru' = Append(Without(lru, job[c].collection_id), job[c].collection_id)
    /\ pc' = [pc EXCEPT ![c] = "inserting"]
    /\ UNCHANGED <<kafkaVars, rec, now, expired, todo, cleaned, cleanup_at, nextRag, finalized, evicted, warned>>
    /\ UNCHANGED procVars
    /\ CallInsert(c, LightRAGWrapper(held[c], job[c].collection_id))
    /\ UNCHANGED docs

\* _create_instance raised: nothing is stored, the lock is released and the
\* exception reaches the except branch of _process_internal.
GetCreateFailed(c) ==
    /\ pc[c] = "get_create"
    /\ lock' = Unlocked(c)
    /\ held' = [held EXCEPT ![c] = 0]
    /\ semaphore' = SlotBack(semaphore)
    /\ Raised(c, "Exception", "create")
    /\ UNCHANGED <<kafkaVars, now, instances, expired, todo, cleaned, cleanup_at, nextRag, finalized>>
    /\ UNCHANGED <<jobs_processed, histVars>>
    /\ UNCHANGED backendVars

\* rag.ainsert(doc_id, text) returned: the job is counted and reported.
Inserted(c) ==
    /\ pc[c] = "inserting"
    /\ held' = [held EXCEPT ![c] = 0]
    /\ semaphore' = SlotBack(semaphore)
    /\ jobs_processed' = Counted(jobs_processed)
    /\ Return(c, ProcessingResult(TRUE, "", Len(extract_text(job[c]))))
    /\ UNCHANGED <<kafkaVars, now, poolVars, jobs_failed, histVars>>
    /\ ainsert' = [ainsert EXCEPT ![c] = <<>>]
    /\ docs' = Stored(ainsert[c][1].workspace, ainsert[c][1].doc_id, ainsert[c][1].text)

\* rag.ainsert(doc_id, text) raised.
InsertFailed(c) ==
    /\ pc[c] = "inserting"
    /\ held' = [held EXCEPT ![c] = 0]
    /\ semaphore' = SlotBack(semaphore)
    /\ Raised(c, "Exception", "insert")
    /\ UNCHANGED <<kafkaVars, now, poolVars, jobs_processed, histVars>>
    /\ ainsert' = [ainsert EXCEPT ![c] = <<>>]
    /\ UNCHANGED docs

\* "await wrapper.rag.finalize_storages()" is reached for the object rag.
Finalize(rag) == finalized' = [finalized EXCEPT ![rag] = @ + 1]

\* release(collection_id): a present entry is popped and finalized under
\* the lock; for an absent one the lock is taken and given back.
Release(p, cid) ==
    /\ pc[p] = "idle"
    /\ LockFree
    /\ IF cid \in Keys(instances)
        THEN /\ instances' = Pop(instances, cid)
             /\ Finalize(instances[IndexOf(instances, cid)].rag)
             /\ lru' = Without(lru, cid)
             /\ lock' = Holder(p)
             /\ warned' = FALSE
             /\ pc' = [pc EXCEPT ![p] = "release_fin"]
        ELSE UNCHANGED <<instances, finalized, lru, lock, pc, warned>>
    /\ UNCHANGED <<kafkaVars, rec, now, expired, todo, cleaned, cleanup_at, nextRag, procVars, evicted>>
    /\ UNCHANGED backendVars

\* An exception leaves release(), cleanup_expired() or close_all(): the
\* lock is released and the rest of the operation is not run.
Propagate(p) ==
    /\ lock' = Unlocked(p)
    /\ todo' = <<>>
    /\ expired' = <<>>
    /\ cleanup_at' = 0
    /\ pc' = [pc EXCEPT ![p] = "raised"]
    /\ UNCHANGED <<instances, finalized, cleaned, lru, warned>>

\* finalize_storages() returned or raised: release() is over.
Released(p, out) ==
    /\ pc[p] = "release_fin"
    /\ IF GoesOn(out)
        THEN /\ lock' = Free
             /\ pc' = [pc EXCEPT ![p] = "idle"]
             /\ warned' = (out # "returned")
             /\ UNCHANGED <<instances, expired, todo, cleaned, cleanup_at, finalized, lru>>
        ELSE Propagate(p)
    /\ UNCHANGED <<kafkaVars, rec, now, nextRag, procVars, evicted>>
    /\ UNCHANGED backendVars

\* Mutation: no entry ever counts as expired.
IsExpiredNever(w, at) == FALSE

\* Mutation: an entry idle for exactly the TTL counts as expired.
IsExpiredInclusive(w, at) == at - w.last_used >= ttl_seconds

\* now - wrapper.last_used > self.ttl_seconds, with now read at the time at.
IsExpired(w, at) == at - w.last_used > ttl_seconds

\* [cid for cid, wrapper in self.instances.items() if now - last_used > ttl]
ExpiredIds(d, at) ==
    LET e == SelectSeq(d, LAMBDA w : IsExpired(w, at))
    IN [i \in 1..Len(e) |-> e[i].collection_id]

\* Mutation: cleanup_expired returns the number of entries left.
CountLeft(all) == Len(instances)

\* return len(expired)
Count(all) == Len(all)

\* The for loop of cleanup_expired at the ids left in ids, at being the
\* value of its local now: pop the next one and await its
\* finalize_storages(), or return len(expired). A missing key makes pop
\* raise, which ends cleanup_expired.
CleanupNext(p, all, ids, at) ==
    IF ids = <<>>
        THEN /\ cleaned' = Count(all)
             /\ lock' = Free
             /\ todo' = <<>>
             /\ expired' = <<>>
             /\ cleanup_at' = 0
             /\ pc' = [pc EXCEPT ![p] = "idle"]
             /\ UNCHANGED <<instances, finalized, lru>>
    ELSE IF Head(ids) \in Keys(instances)
        THEN /\ instances' = Pop(instances, Head(ids))
             /\ Finalize(instances[IndexOf(instances, Head(ids))].rag)
             /\ lru' = Without(lru, Head(ids))
             /\ lock' = Holder(p)
             /\ todo' = Tail(ids)
             /\ expired' = all
             /\ cleanup_at' = at
             /\ pc' = [pc EXCEPT ![p] = "cleanup_fin"]
             /\ UNCHANGED cleaned
        ELSE /\ lock' = Free
             /\ todo' = <<>>
             /\ expired' = <<>>
             /\ cleanup_at' = 0
             /\ pc' = [pc EXCEPT ![p] = "idle"]
             /\ UNCHANGED <<instances, finalized, cleaned, lru>>

\* cleanup_expired(): the lock is taken, the clock is read and the expired
\* ids are listed.
CleanupExpired(p) ==
    /\ pc[p] = "idle"
    /\ LockFree
    /\ CleanupNext(p, ExpiredIds(instances, now), ExpiredIds(instances, now), now)
    /\ UNCHANGED <<kafkaVars, rec, now, nextRag, procVars, evicted>>
    /\ warned' = FALSE
    /\ UNCHANGED backendVars

\* finalize_storages() of an expired instance returned or raised.
CleanupFinalized(p, out) ==
    /\ pc[p] = "cleanup_fin"
    /\ IF GoesOn(out)
        THEN /\ CleanupNext(p, expired, todo, cleanup_at)
             /\ warned' = (out # "returned")
        ELSE Propagate(p)
    /\ UNCHANGED <<kafkaVars, rec, now, nextRag, procVars, evicted>>
    /\ UNCHANGED backendVars

\* Mutation: close_all skips the oldest entry.
ListedFromSecond(d) == [i \in 1..(Len(d) - 1) |-> d[i + 1].rag]

\* list(self.instances.items()): the LightRAG objects, oldest first
Listed(d) == [i \in 1..Len(d) |-> d[i].rag]

\* Mutation: close_all leaves the dict as it is.
NotCleared(d) == d

\* self.instances.clear()
Clear(d) == <<>>

\* The for loop of close_all over list(self.instances.items()): await the
\* next finalize_storages(), or clear the dict and release the lock.
CloseNext(p, rags, to) ==
    IF rags = <<>>
        THEN /\ instances' = Clear(instances)
             /\ lru' = <<>>
             /\ lock' = Free
             /\ todo' = <<>>
             /\ pc' = [pc EXCEPT ![p] = to]
             /\ UNCHANGED finalized
        ELSE /\ Finalize(Head(rags))
             /\ lock' = Holder(p)
             /\ todo' = Tail(rags)
             /\ pc' = [pc EXCEPT ![p] = "close_fin"]
             /\ UNCHANGED <<instances, lru>>

\* close_all(), called by p at from and returning to p at to: the lock is
\* taken and the entries are listed.
CloseAll(p, from, to) ==
    /\ pc[p] = from
    /\ LockFree
    /\ CloseNext(p, Listed(instances), to)
    /\ UNCHANGED <<kafkaVars, rec, now, expired, cleaned, cleanup_at, nextRag, procVars, evicted>>
    /\ warned' = FALSE
    /\ UNCHANGED backendVars

\* finalize_storages() of a listed instance returned or raised.
CloseFinalized(p, to, out) ==
    /\ pc[p] = "close_fin"
    /\ IF GoesOn(out)
        THEN /\ CloseNext(p, todo, to)
             /\ warned' = (out # "returned")
             /\ UNCHANGED <<expired, cleaned, cleanup_at>>
        ELSE Propagate(p)
    /\ UNCHANGED <<kafkaVars, rec, now, nextRag, procVars, evicted>>
    /\ UNCHANGED backendVars

\* -------------------------------------------------------------- shutdown

\* Mutation: shutdown() returns without calling close_all().
SkipCloseAll(p, to) ==
    /\ pc' = [pc EXCEPT ![p] = to]
    /\ UNCHANGED <<instances, lru, lock, todo, finalized, warned>>

\* shutdown() calls close_all(): with the lock free it starts at once,
\* otherwise p waits for the lock.
CallCloseAll(p, to) ==
    IF LockFree
        THEN /\ CloseNext(p, Listed(instances), to)
             /\ warned' = FALSE
        ELSE /\ pc' = [pc EXCEPT ![p] = "close_wait"]
             /\ UNCHANGED <<instances, lru, lock, todo, finalized, warned>>

\* RAGAgent.shutdown(), run by the task the signal handler creates and by
\* main() after run() returned, called by p at from and returning to p at
\* to: it calls consumer.stop(), which clears _running, waits for no task
\* (_tasks is never added to) and awaits the stop of the AIOKafkaConsumer
\* if there is one that is not closed yet; otherwise it goes on to
\* close_all().
Shutdown(p, from, to) ==
    /\ pc[p] = from
    /\ running' = FALSE
    /\ IF transport \in {"none", "closed"}
        THEN /\ CallCloseAll(p, to)
             /\ UNCHANGED transport
        ELSE /\ pc' = [pc EXCEPT ![p] = "stopping"]
             /\ transport' = "closing"
             /\ UNCHANGED <<instances, lru, lock, todo, finalized, warned>>
    /\ UNCHANGED <<position, committed, cur, rec>>
    /\ UNCHANGED <<now, expired, cleaned, cleanup_at, nextRag, procVars, evicted>>
    /\ UNCHANGED backendVars

\* The AIOKafkaConsumer stopped: shutdown() goes on to close_all().
Stopped(p, to) ==
    /\ pc[p] = "stopping"
    /\ transport' = "closed"
    /\ CallCloseAll(p, to)
    /\ UNCHANGED <<running, position, committed, cur, rec>>
    /\ UNCHANGED <<now, expired, cleaned, cleanup_at, nextRag, procVars, evicted>>
    /\ UNCHANGED backendVars

\* consumer.run() returned or raised to RAGAgent.run(), whose finally
\* clause calls cleanup_task.cancel(): the reaper, asleep, ends; inside
\* cleanup_expired it is sent the CancelledError where it awaits
\* finalize_storages(). run() returns to main(), whose finally clause
\* calls shutdown().
RunReturned ==
    /\ pc["loop"] \in {"ended", "crashed"}
    /\ pc' = [pc EXCEPT !["loop"] = "finally",
                        !["reaper"] = IF @ = "cleanup_fin" THEN "cleanup_cancel"
                                                          ELSE "cancelled"]
    /\ UNCHANGED <<now, poolVars, procVars, consVars, backendVars, histVars>>

\* The CancelledError is raised by "await wrapper.rag.finalize_storages()"
\* in cleanup_expired: "except Exception" does not catch it, it leaves
\* cleanup_expired, which releases the lock, and ends _cleanup_loop.
CleanupCancelled(p) ==
    /\ pc[p] = "cleanup_cancel"
    /\ IF Swallowed("CancelledError")
        THEN /\ CleanupNext(p, expired, todo, cleanup_at)
             /\ warned' = TRUE
        ELSE /\ lock' = Unlocked(p)
             /\ todo' = <<>>
             /\ expired' = <<>>
             /\ cleanup_at' = 0
             /\ pc' = [pc EXCEPT ![p] = "cancelled"]
             /\ UNCHANGED <<instances, finalized, cleaned, lru, warned>>
    /\ UNCHANGED <<kafkaVars, rec, now, nextRag, procVars, evicted>>
    /\ UNCHANGED backendVars

\* The task of the process() call of c is cancelled while the call is
\* suspended: the CancelledError, which "except Exception" does not catch,
\* leaves get() if it is raised there, giving back the lock that c holds,
\* and leaves "async with self._semaphore", giving back the slot if c had
\* taken one; the call returns nothing and the task ends.
Cancel(c) ==
    /\ pc[c] \in {"sem_wait", "get_wait", "get_evict", "get_create", "inserting"}
    /\ ~Caught("CancelledError")
    /\ pc' = [pc EXCEPT ![c] = "cancelled"]
    /\ job' = [job EXCEPT ![c] = None]
    /\ held' = [held EXCEPT ![c] = 0]
    /\ semaphore' = IF pc[c] = "sem_wait" THEN semaphore ELSE SlotBack(semaphore)
    /\ lock' = IF lock = c THEN Unlocked(c) ELSE lock
    /\ ainsert' = [ainsert EXCEPT ![c] = <<>>]
    /\ UNCHANGED <<kafkaVars, rec, now, instances, expired, todo, cleaned, cleanup_at, nextRag, finalized>>
    /\ UNCHANGED <<result, jobs_processed, jobs_failed, docs, histVars>>

\* ------------------------------------------------------------------ pool

\* The pool and the pipeline under concurrent callers: process() is called
\* from several tasks at once while cleanup_expired, release and close_all
\* are called from tasks of their own.
PoolNext ==
    \/ Tick
    \/ \E c \in Workers, j \in PoolJobs : Calls < PoolCalls /\ ProcessCall(c, j)
    \/ \E c \in Workers : Enter(c)
    \/ \E c \in Workers : GetHit(c)
    \/ \E c \in Workers : GetMiss(c)
    \/ \E c \in Workers, out \in Outcomes : GetEvicted(c, out)
    \/ \E c \in Workers : GetCreated(c)
    \/ \E c \in Workers : GetCreateFailed(c)
    \/ \E c \in Workers : Inserted(c)
    \/ \E c \in Workers : InsertFailed(c)
    \/ \E cid \in Tenants : Release("releaser", cid)
    \/ \E out \in Outcomes : Released("releaser", out)
    \/ CleanupExpired("reaper")
    \/ \E out \in Outcomes : CleanupFinalized("reaper", out)
    \/ CloseAll("closer", "idle", "idle")
    \/ \E out \in Outcomes : CloseFinalized("closer", "idle", out)

SpecPool == Init /\ [][PoolNext]_vars

\* -------------------------------------------------------------- pipeline

\* The jobs of the pipeline's callers: with text for every tenant (for t-1
\* of both urls), and with content of every other kind for t2.
PipelineJobs ==
    {j \in Jobs :
        IF j.content # None /\ j.content.text # ""
            THEN j.url = "https://x/doc" \/ j.collection_id = "t-1"
            ELSE j.url = "https://x/doc" /\ j.collection_id = "t2"}

\* The pipeline under more concurrent callers than the semaphore has slots,
\* with jobs of every kind of content.
PipelineNext ==
    \/ \E c \in Tasks, j \in PipelineJobs : ProcessCall(c, j)
    \/ \E c \in Tasks : Enter(c)
    \/ \E c \in Tasks : GetHit(c)
    \/ \E c \in Tasks : GetMiss(c)
    \/ \E c \in Tasks, out \in Outcomes : GetEvicted(c, out)
    \/ \E c \in Tasks : GetCreated(c)
    \/ \E c \in Tasks : GetCreateFailed(c)
    \/ \E c \in Tasks : Inserted(c)
    \/ \E c \in Tasks : InsertFailed(c)

SpecPipeline == Init /\ [][PipelineNext]_vars

\* The pipeline under callers whose tasks may be cancelled at any await.
CancelNext ==
    \/ \E c \in Tasks, j \in PoolJobs : ProcessCall(c, j)
    \/ \E c \in Tasks : Enter(c)
    \/ \E c \in Tasks : GetHit(c)
    \/ \E c \in Tasks : GetMiss(c)
    \/ \E c \in Tasks, out \in Outcomes : GetEvicted(c, out)
    \/ \E c \in Tasks : GetCreated(c)
    \/ \E c \in Tasks : GetCreateFailed(c)
    \/ \E c \in Tasks : Inserted(c)
    \/ \E c \in Tasks : InsertFailed(c)
    \/ \E c \in Tasks : Cancel(c)

SpecCancel == Init /\ [][CancelNext]_vars

\* The pipeline of one tenant under two callers, with jobs whose content
\* is of every shape.
ExtractNext ==
    \/ \E c \in Workers, j \in ExtractJobs : ProcessCall(c, j)
    \/ \E c \in Workers : Enter(c)
    \/ \E c \in Workers : GetHit(c)
    \/ \E c \in Workers : GetMiss(c)
    \/ \E c \in Workers : GetCreated(c)
    \/ \E c \in Workers : GetCreateFailed(c)
    \/ \E c \in Workers : Inserted(c)
    \/ \E c \in Workers : InsertFailed(c)

SpecExtract == Init /\ [][ExtractNext]_vars

\* Every caller calls process() once.
LiveCalls == 3

\* The jobs with text.
LiveJobs == {j \in PoolJobs : j.content.text # ""}

\* The pipeline under more callers than slots, beside the reaper, release
\* and close_all.
LiveNext ==
    \/ Tick
    \/ \E c \in Tasks, j \in LiveJobs : Calls < LiveCalls /\ ProcessCall(c, j)
    \/ \E c \in Tasks : Enter(c)
    \/ \E c \in Tasks : GetHit(c)
    \/ \E c \in Tasks : GetMiss(c)
    \/ \E c \in Tasks, out \in Outcomes : GetEvicted(c, out)
    \/ \E c \in Tasks : GetCreated(c)
    \/ \E c \in Tasks : GetCreateFailed(c)
    \/ \E c \in Tasks : Inserted(c)
    \/ \E c \in Tasks : InsertFailed(c)
    \/ \E cid \in Tenants : Release("releaser", cid)
    \/ \E out \in Outcomes : Released("releaser", out)
    \/ CleanupExpired("reaper")
    \/ \E out \in Outcomes : CleanupFinalized("reaper", out)
    \/ CloseAll("closer", "idle", "idle")
    \/ \E out \in Outcomes : CloseFinalized("closer", "idle", out)

\* asyncio.Semaphore and asyncio.Lock wake their waiters in order, so a
\* waiter is served at the latest when the slot or the lock stays free;
\* every call of the backend that was started ends, by returning or by
\* raising.
SpecLive ==
    /\ Init
    /\ [][LiveNext]_vars
    /\ \A c \in Tasks :
          /\ WF_vars(Enter(c))
          /\ WF_vars(GetHit(c) \/ GetMiss(c))
          /\ WF_vars(\E out \in Outcomes : GetEvicted(c, out))
          /\ WF_vars(GetCreated(c) \/ GetCreateFailed(c))
          /\ WF_vars(Inserted(c) \/ InsertFailed(c))
    /\ WF_vars(\E out \in Outcomes : Released("releaser", out))
    /\ WF_vars(\E out \in Outcomes : CleanupFinalized("reaper", out))
    /\ WF_vars(\E out \in Outcomes : CloseFinalized("closer", "idle", out))

\* The pool under one caller of the pipeline, whose calls follow each
\* other, beside release, the reaper and close_all in tasks of their own.
PoolSeqNext ==
    \/ Tick
    \/ \E j \in PoolJobs : Calls < PoolCalls /\ ProcessCall("w1", j)
    \/ Enter("w1")
    \/ GetHit("w1")
    \/ GetMiss("w1")
    \/ \E out \in Outcomes : GetEvicted("w1", out)
    \/ GetCreated("w1")
    \/ GetCreateFailed("w1")
    \/ Inserted("w1")
    \/ InsertFailed("w1")
    \/ \E cid \in Tenants : Release("releaser", cid)
    \/ \E out \in Outcomes : Released("releaser", out)
    \/ CleanupExpired("reaper")
    \/ \E out \in Outcomes : CleanupFinalized("reaper", out)
    \/ CloseAll("closer", "idle", "idle")
    \/ \E out \in Outcomes : CloseFinalized("closer", "idle", out)

SpecPoolSeq == Init /\ [][PoolSeqNext]_vars

\* ---------------------------------------------------------------- reaper

\* The reaper beside one caller of the pipeline, as long as the agent
\* runs: _cleanup_loop calls cleanup_expired after every sleep.
ReaperNext ==
    \/ Tick
    \/ \E j \in PoolJobs : ProcessCall("w1", j)
    \/ Enter("w1")
    \/ GetHit("w1")
    \/ GetMiss("w1")
    \/ \E out \in Outcomes : GetEvicted("w1", out)
    \/ GetCreated("w1")
    \/ GetCreateFailed("w1")
    \/ Inserted("w1")
    \/ InsertFailed("w1")
    \/ CleanupExpired("reaper")
    \/ \E out \in Outcomes : CleanupFinalized("reaper", out)

\* The sleep of _cleanup_loop ends and the lock, handed on in the order of
\* the requests, reaches the reaper whenever its holders give it back;
\* finalize_storages() and _create_instance end, by return or exception.
SpecReaper ==
    /\ Init
    /\ [][ReaperNext]_vars
    /\ SF_vars(CleanupExpired("reaper"))
    /\ WF_vars(\E out \in Outcomes : CleanupFinalized("reaper", out))
    /\ WF_vars(\E out \in Outcomes : GetEvicted("w1", out))
    /\ WF_vars(GetCreated("w1") \/ GetCreateFailed("w1"))

\* ----------------------------------------------------------------- agent

\* The agent as main.py wires it: the consumer loop hands every job to
\* DocumentProcessor.process, the idle reaper calls cleanup_expired, and a
\* signal runs shutdown() in a task of its own.
Next ==
    \/ Tick
    \/ Start
    \/ \E p \in Partitions, m \in Messages :
          Delivered < MaxDeliveries /\ Deliver(p, m, "sem_wait")
    \/ \E p \in Partitions : FetchRaised(p, "undecodable")
    \/ \E p \in Partitions : FetchRaised(p, "KafkaError")
    \/ FetchStopped
    \/ Enter("loop")
    \/ GetHit("loop")
    \/ GetMiss("loop")
    \/ \E out \in Outcomes : GetEvicted("loop", out)
    \/ GetCreated("loop")
    \/ GetCreateFailed("loop")
    \/ Inserted("loop")
    \/ InsertFailed("loop")
    \/ Committed
    \/ CommitFailed
    \/ CleanupExpired("reaper")
    \/ \E out \in Outcomes : CleanupFinalized("reaper", out)
    \/ Shutdown("sig", "idle", "done")
    \/ Stopped("sig", "done")
    \/ CloseAll("sig", "close_wait", "done")
    \/ \E out \in Outcomes : CloseFinalized("sig", "done", out)
    \/ RunReturned
    \/ CleanupCancelled("reaper")
    \/ Shutdown("loop", "finally", "exited")
    \/ CloseAll("loop", "close_wait", "exited")
    \/ \E out \in Outcomes : CloseFinalized("loop", "exited", out)

Spec == Init /\ [][Next]_vars

\* The consumer loop with a message_handler of any kind: one that returns
\* a result, successful or not, or raises.
HandlerNext ==
    \/ Start
    \/ \E p \in Partitions, m \in Messages : Deliver(p, m, "handling")
    \/ \E p \in Partitions : FetchRaised(p, "undecodable")
    \/ \E p \in Partitions : FetchRaised(p, "KafkaError")
    \/ FetchStopped
    \/ \E success \in BOOLEAN : HandlerDone(success)
    \/ HandlerRaised
    \/ Committed
    \/ CommitFailed
    \/ Shutdown("sig", "idle", "done")
    \/ Stopped("sig", "done")

SpecHandler == Init /\ [][HandlerNext]_vars

\* ---------------------------------------------------------------- claims

Rag(cid) == instances[IndexOf(instances, cid)].rag

Inserting(c) == pc[c] = "inserting"

\* C1: whatever get, release, cleanup_expired and close_all calls are
\* interleaved, the pool never holds more than max_instances entries.
C1_PoolBounded == Len(instances) <= max_instances

\* A miss at capacity has evicted an entry and stored the new one: the pool
\* is full again.
C1_Witness ==
    /\ Len(instances) = max_instances
    /\ evicted # ""
    /\ nextRag > max_instances
    /\ lock = Free

\* C2: concurrent get(t) calls for one absent tenant construct one instance:
\* the pool never has two entries for t, t is never under construction twice
\* or while it is pooled, and every caller working with an instance of t that
\* was not finalized works with the pooled one.
C2_OneInstancePerTenant ==
    \A t \in Tenants :
        /\ Cardinality({i \in 1..Len(instances) : instances[i].collection_id = t}) <= 1
        /\ Cardinality({c \in Callers : pc[c] = "get_create" /\ job[c].collection_id = t})
             + (IF t \in Keys(instances) THEN 1 ELSE 0) <= 1
        /\ \A c \in Callers :
             Inserting(c) /\ job[c].collection_id = t /\ finalized[held[c]] = 0
                 => t \in Keys(instances) /\ Rag(t) = held[c]

\* The first two process() calls, both under way, asked for the same tenant
\* while the pool was empty: one instance was constructed and both hold it.
C2_Witness ==
    /\ Inserting("w1") /\ Inserting("w2")
    /\ job["w1"].collection_id = job["w2"].collection_id
    /\ held["w1"] = held["w2"]
    /\ nextRag = 1
    /\ jobs_processed + jobs_failed = 0

Records == {r \in Partitions \X (1..PartLen) : r[2] <= Len(rec[r[1]])}

Status(r) == rec[r[1]][r[2]].status

\* The committed offset of its partition is past the record.
Acknowledged(r) == committed[r[1]] >= r[2]

\* C3: for a record whose pipeline call returned success = false, the loop
\* issues no commit.
C3_NoCommitAfterFailure ==
    \A r \in Records : Status(r) = "failure" => rec[r[1]][r[2]].commits = 0

\* C4: for a record whose pipeline call returned success = true, the loop
\* issues exactly one commit.
C4_OneCommitAfterSuccess ==
    \A r \in Records : Status(r) = "success" => rec[r[1]][r[2]].commits = 1

\* A job was processed, its one commit returned and the loop awaits the
\* next message.
C4_Witness ==
    /\ pc["loop"] = "fetching"
    /\ \E r \in Records :
         /\ Status(r) = "success"
         /\ rec[r[1]][r[2]].commits = 1
         /\ Acknowledged(r)

\* C5: a payload that fails to parse (that does not decode, or decodes to
\* something that is no IndexingJobMessage) has its offset committed once
\* the loop is done with it.
C5_MalformedCommitted ==
    /\ \A r \in Records : Status(r) = "invalid" => Acknowledged(r)
    /\ pc["loop"] = "crashed" /\ cur.raised = "undecodable"
         => committed[cur.partition] > cur.offset

\* C6: a record whose handler call raised stays unacknowledged: no later
\* commit moves the committed offset of its partition past it.
C6_RaisedStaysUncommitted ==
    \A r \in Records : Status(r) = "raised" => ~Acknowledged(r)

\* C7: no commit is issued for a record, and no committed offset covers it,
\* before its pipeline call has returned; nor does a committed offset cover
\* a record that was not delivered.
C7_CommitAfterReturn ==
    /\ \A p \in Partitions : committed[p] <= Len(rec[p])
    /\ \A r \in Records :
         Status(r) = "dispatched" => ~Acknowledged(r) /\ rec[r[1]][r[2]].commits = 0

\* A commit has moved a committed offset while the pipeline call for a
\* later record is under way, and that record is not covered.
C7_Witness ==
    \E r \in Records, p \in Partitions :
        /\ Status(r) = "dispatched"
        /\ pc["loop"] = "inserting"
        /\ committed[p] > 0
        /\ ~Acknowledged(r)

\* C8: within a partition nothing overtakes: when a record has been
\* delivered, the pipeline call of every earlier record of the partition has
\* returned and the commit issued for it, if any, is over.
C8_NoOvertaking ==
    \A r \in Records :
        r[2] < Len(rec[r[1]]) => Status(r) # "dispatched" /\ ~rec[r[1]][r[2]].pending

\* Two records of one partition were processed and acknowledged, one
\* after the other.
C8_Witness ==
    \E p \in Partitions :
        /\ Len(rec[p]) = 2
        /\ rec[p][1].status = "success" /\ rec[p][2].status = "success"
        /\ committed[p] = 2
        /\ pc["loop"] = "fetching"

\* A step in which cleanup_expired or the eviction loop of get() pops an entry.
EvictionStep ==
    /\ instances' # instances
    /\ \/ pc'["reaper"] = "cleanup_fin"
       \/ \E c \in Callers : pc'[c] = "get_evict"

\* C9: neither cleanup_expired nor the eviction loop of get() removes (and
\* finalizes) an instance while a process() call that got it from get() still
\* awaits its ainsert.
C9_NoEvictionInUse ==
    [][EvictionStep =>
        \A c \in Callers : Inserting(c) => held[c] \in {instances'[i].rag : i \in 1..Len(instances')}]_vars

\* C10: the entry that a miss at capacity evicts is the one whose latest get
\* (hit or creating miss) is the oldest.
C10_EvictsLeastRecentlyUsed ==
    [][(instances' # instances /\ \E c \in Callers : pc'[c] = "get_evict")
        => evicted' = Head(lru)]_vars

\* max_instances = 2 and get(t-1), get(t_1), get(t-1), get(t2): t_1 was evicted
\* and t-1 kept (t-1 still has the first instance, t2 the third, the second is
\* finalized).
C10_Witness ==
    /\ max_instances = 2
    /\ evicted = "t_1"
    /\ Len(instances) = 2
    /\ instances[1].collection_id = "t-1" /\ instances[1].rag = 1
    /\ instances[2].collection_id = "t2" /\ instances[2].rag = 3
    /\ finalized[1] = 0 /\ finalized[2] = 1
    /\ Calls = 4

\* The entries of d, as a set.
Entries(d) == {d[i] : i \in 1..Len(d)}

\* C11: cleanup_expired removes only entries idle for longer than
\* ttl_seconds when it read the clock, so that every entry touched within
\* the window is retained, and when it returns no entry that was idle for
\* longer than that is left.
C11_CleanupRemovesExpiredOnly ==
    [][/\ (instances' # instances /\ pc'["reaper"] = "cleanup_fin")
            => \A w \in Entries(instances) \ Entries(instances') :
                   cleanup_at' - w.last_used > ttl_seconds
       /\ (pc["reaper"] = "cleanup_fin" /\ pc'["reaper"] = "idle")
            => \A w \in Entries(instances') :
                   cleanup_at - w.last_used <= ttl_seconds]_vars

\* cleanup_expired is under way, has removed the one expired entry and has
\* kept one that was touched within the window.
C11_Witness ==
    /\ pc["reaper"] = "cleanup_fin"
    /\ Len(expired) = 1 /\ todo = <<>>
    /\ Len(instances) = 1
    /\ expired[1] # instances[1].collection_id
    /\ cleanup_at - instances[1].last_used <= ttl_seconds

\* The process() call of c is inside "async with self._semaphore", suspended
\* in one of the awaits of _process_internal.
InPipeline(c) == pc[c] \in {"get_wait", "get_evict", "get_create", "inserting"}

\* C12: at most max_workers process() calls are inside the pipeline steps,
\* the semaphore counts the slots left, and a call that waits for the
\* semaphore can go on exactly when a slot is free.
C12_AtMostMaxWorkers ==
    /\ Cardinality({c \in Callers : InPipeline(c)}) <= max_workers
    /\ semaphore = max_workers - Cardinality({c \in Callers : InPipeline(c)})
    /\ \A c \in Callers : pc[c] = "sem_wait" => (ENABLED Enter(c) <=> semaphore > 0)

\* The semaphore is saturated: max_workers calls are in the pipeline and a
\* further one waits, after an earlier call has finished.
C12_Witness ==
    /\ Cardinality({c \in Callers : InPipeline(c)}) = max_workers
    /\ semaphore = 0
    /\ \E c \in Callers : pc[c] = "sem_wait"
    /\ jobs_processed > 0

\* C13: no process() call ends with an exception: a failure of the text
\* extraction, of the pool get or of the insert is returned as a
\* ProcessingResult with success = false and an error message.
C13_ProcessNeverRaises ==
    /\ \A c \in Callers : pc[c] # "raised"
    /\ \A r \in Records : Status(r) # "raised"
    /\ result # None => (result.success <=> result.error_message = "")

\* Three calls have failed, the last one in ainsert, and its failure was
\* returned.
C13_Witness ==
    /\ jobs_failed = 3
    /\ result = ProcessingResult(FALSE, "insert", 0)
    /\ \A c \in Callers : pc[c] = "idle"

\* No text can be extracted from the job: _extract_text raises, or what it
\* returns is empty.
NoText(j) == extract_text(j) = Error \/ extract_text(j) = ""

\* C14: a process() call for a job without extractable text returns
\* success = false in the step in which it got its semaphore slot: the
\* pool is not touched, no instance is got or constructed and no ainsert
\* is issued.
C14_NoTextFailsBeforePool ==
    [][\A c \in Callers :
          pc[c] = "sem_wait" /\ pc'[c] # "sem_wait" /\ NoText(job[c])
              => /\ ~InPipeline(c)'
                 /\ result' # None /\ ~result'.success
                 /\ jobs_failed' = jobs_failed + 1
                 /\ poolVars' = poolVars
                 /\ held'[c] = 0]_vars

\* The only call so far was for html that cleans to the empty text: it
\* failed and no instance was constructed.
C14_Witness ==
    /\ result = ProcessingResult(FALSE, "No text content", 0)
    /\ jobs_failed = 1 /\ jobs_processed = 0
    /\ nextRag = 0 /\ instances = <<>>
    /\ \A c \in Callers : pc[c] = "idle"

\* The job carries pre-extracted text.
HasText(j) == j.content # None /\ j.content.text # ""

\* C15: for a job with pre-extracted text, the one ainsert call process()
\* issues is ainsert(url, text) on the LightRAG object the pool holds for
\* the job's collection id at that moment; and when that call returns,
\* process() returns success = true with text_length the length of the
\* text, having issued no other ainsert, and the document is stored under
\* the url.
C15_TextJobInsertedOnce ==
    [][\A c \in Callers :
          /\ (pc[c] # "inserting" /\ pc'[c] = "inserting" /\ HasText(job[c]))
                => /\ ainsert'[c] = <<[rag |-> held'[c],
                                       workspace |-> workspace_name(job[c].collection_id),
                                       doc_id |-> job[c].url,
                                       text |-> job[c].content.text]>>
                   /\ \E w \in Entries(instances') :
                         w.collection_id = job[c].collection_id /\ w.rag = held'[c]
          /\ (pc[c] = "inserting" /\ pc'[c] # "inserting" /\ HasText(job[c])
                 /\ jobs_failed' = jobs_failed)
                => /\ result' = ProcessingResult(TRUE, "", Len(job[c].content.text))
                   /\ Len(ainsert[c]) = 1
                   /\ [doc_id |-> job[c].url, text |-> job[c].content.text]
                         \in docs'[workspace_name(job[c].collection_id)]]_vars

\* The job {collection_id: t-1, url: https://x/doc, text: hello world} was
\* processed: success with text_length 11, one instance constructed and the
\* document stored in the workspace of t-1.
C15_Witness ==
    /\ result = ProcessingResult(TRUE, "", 11)
    /\ jobs_processed = 1 /\ jobs_failed = 0
    /\ nextRag = 1
    /\ Keys(instances) = {"t-1"}
    /\ docs[workspace_name("t-1")] = {[doc_id |-> "https://x/doc", text |-> "hello world"]}
    /\ \A c \in Callers : pc[c] = "idle"

\* The step in which the ainsert call of c returns and process() with it.
InsertReturns(c) ==
    pc[c] = "inserting" /\ pc'[c] # "inserting" /\ jobs_processed' = jobs_processed + 1

\* The document of job j: its url as identifier, and its text.
Document(j) == [doc_id |-> j.url, text |-> extract_text(j)]

\* C16: every process() call for a job inserts the same document, the url
\* as identifier with the text of the job, so that in a storage that keeps
\* one document per identifier a second call for the same job changes
\* nothing, and the workspace never holds two documents of one url.
C16_SameJobSameDocument ==
    [][\A c \in Callers :
          InsertReturns(c)
              => LET ws == workspace_name(job[c].collection_id)
                 IN /\ Document(job[c]) \in docs'[ws]
                    /\ Document(job[c]) \in docs[ws] => docs' = docs
                    /\ Cardinality({d \in docs'[ws] : d.doc_id = job[c].url}) = 1
                    /\ \A d \in docs'[ws] : d.doc_id \in Urls]_vars

\* The same job (t-1, https://x/doc, hello world) was processed twice on
\* the same instance, and the workspace holds one document.
C16_Witness ==
    /\ jobs_processed = 2 /\ jobs_failed = 0
    /\ nextRag = 1 /\ Keys(instances) = {"t-1"}
    /\ docs[workspace_name("t-1")] = {[doc_id |-> "https://x/doc", text |-> "hello world"]}
    /\ \A c \in Callers : pc[c] = "idle"

\* The pipeline call the consumer loop dispatched has not returned: it is
\* suspended in finalize_storages() or initialize_storages() inside get(),
\* or in ainsert.
Dispatched == pc["loop"] \in {"get_evict", "get_create", "inserting"}

\* C17: the AIOKafkaConsumer is closed only when no pipeline call that the
\* loop dispatched is still outstanding.
C17_ClosedAfterCallsFinished == transport = "closed" => ~Dispatched

\* C18: close_all, run by shutdown(), never reaches finalize_storages() of
\* a LightRAG object on which a process() call still awaits its ainsert.
C18_NoCloseDuringInsert ==
    [][\A rag \in Rags :
          finalized'[rag] > finalized[rag] /\ pc'["sig"] = "close_fin"
              => \A c \in Callers : ~(Inserting(c) /\ held[c] = rag)]_vars

\* C19: two pooled instances of distinct collection ids never work on the
\* same LightRAG workspace.
C19_WorkspacePerTenant ==
    \A v, w \in Entries(instances) :
        v.collection_id # w.collection_id
            => workspace_name(v.collection_id) # workspace_name(w.collection_id)

\* The places where a pool operation is suspended with the lock held.
LockedSections ==
    {"get_evict", "get_create", "release_fin", "cleanup_fin", "cleanup_cancel", "close_fin"}

\* C20: when _create_instance raises during a miss, the entry is not
\* stored and the pool stays as it was, the lock is released and the
\* exception reaches the caller of get(), which reports it; and the lock is
\* only ever held by an operation that is still under way.
C20_CreateFailureLeavesPoolUsable ==
    [][/\ \A c \in Callers :
            pc[c] = "get_create" /\ pc'[c] \notin {"get_create", "inserting"}
                => /\ instances' = instances
                   /\ job[c].collection_id \notin Keys(instances')
                   /\ lock' = Free
                   /\ result' = ProcessingResult(FALSE, "create", 0)
       /\ lock' # Free => pc'[lock'] \in LockedSections]_vars

\* The first construction failed (its object was never pooled nor
\* finalized), and a later get constructed and pooled the second.
C20_Witness ==
    /\ nextRag = 2
    /\ Len(instances) = 1 /\ instances[1].rag = 2
    /\ \A rag \in Rags : finalized[rag] = 0
    /\ jobs_failed = 1 /\ jobs_processed = 1
    /\ lock = Free

\* A step of p in which the finalize_storages() that p awaits ends.
FinalizeEnded(p) ==
    /\ pc[p] \in {"get_evict", "release_fin", "cleanup_fin", "close_fin"}
    /\ (pc'[p] # pc[p] \/ todo' # todo)

\* C21: whether the finalize_storages() awaited by get (evicting at
\* capacity), release, cleanup_expired or close_all returns or raises, the
\* operation goes on as after a return: nothing is raised to its caller,
\* the entry stays removed, and the rest of the work is done (get goes on
\* to construct, release returns, cleanup_expired removes the next expired
\* entry or returns its count, close_all finalizes the next entry or
\* clears the pool).
C21_FinalizeFailureSwallowed ==
    [][\A p \in PoolClients :
          FinalizeEnded(p) =>
              /\ pc'[p] # "raised"
              /\ pc[p] = "get_evict" =>
                    /\ pc'[p] \in {"get_evict", "get_create"}
                    /\ lock' = p
                    /\ evicted \notin Keys(instances')
              /\ pc[p] = "release_fin" =>
                    /\ pc'[p] = "idle"
                    /\ lock' = Free
                    /\ \A w \in Entries(instances') : finalized'[w.rag] = 0
              /\ pc[p] = "cleanup_fin" =>
                    /\ \A i \in 1..(Len(expired) - Len(todo)) :
                          expired[i] \notin Keys(instances')
                    /\ IF todo = <<>>
                        THEN /\ pc'[p] = "idle"
                             /\ cleaned' = Len(expired)
                             /\ lock' = Free
                        ELSE /\ pc'[p] = "cleanup_fin"
                             /\ Head(todo) \in Keys(instances)
                             /\ Head(todo) \notin Keys(instances')
              /\ pc[p] = "close_fin" =>
                    IF todo = <<>>
                        THEN /\ instances' = <<>>
                             /\ lock' = Free
                             /\ pc'[p] # "close_fin"
                        ELSE /\ pc'[p] = "close_fin"
                             /\ finalized'[Head(todo)] = finalized[Head(todo)] + 1]_vars

\* cleanup_expired removed both entries and returned 2 although the
\* finalize_storages() of the second raised.
C21_Witness ==
    /\ warned
    /\ cleaned = 2
    /\ instances = <<>>
    /\ nextRag = 2
    /\ finalized[1] = 1 /\ finalized[2] = 1
    /\ pc["reaper"] = "idle"
    /\ lock = Free

\* "await self.consumer.commit()" for the record r raised: a commit was
\* issued, is no longer awaited and has not stored the offset.
CommitRaised(r) ==
    /\ rec[r[1]][r[2]].commits > 0
    /\ ~rec[r[1]][r[2]].pending
    /\ ~Acknowledged(r)

\* consume() is inside "async for": it awaits a message, the handler or a
\* commit.
Consuming ==
    pc["loop"] \in {"fetching", "handling", "sem_wait", "get_wait", "get_evict",
                    "get_create", "inserting", "committing"}

\* C22: a KafkaError, raised by the fetch or by commit(), ends the loop:
\* consume() raises it and goes on to no further record.
C22_KafkaErrorEndsLoop ==
    /\ ("raised" \in DOMAIN cur /\ cur.raised = "KafkaError") => ~Consuming
    /\ (\E r \in Records : CommitRaised(r)) => ~Consuming

\* C23: the cancellation of the reaper at shutdown cuts no cleanup_expired
\* short: the reaper that ends by the cancellation was asleep, not awaiting
\* the finalize_storages() of an entry it had removed, with or without
\* expired entries left to remove.
C23_CancelCutsNoCleanupShort ==
    [][pc'["reaper"] = "cancelled" => pc["reaper"] \in {"idle", "cancelled"}]_vars

\* A step in which release() pops an entry and reaches its
\* finalize_storages().
ReleaseStep == pc["releaser"] = "idle" /\ pc'["releaser"] = "release_fin"

\* C24: release(t) of a pooled t removes the entry of t and no other,
\* leaves the others in their order and reaches finalize_storages() of the
\* removed instance once, for the first time; release(t) of a t that is
\* not pooled, as after a release(t), changes nothing and finalizes
\* nothing; and the return of release changes the pool no more.
C24_ReleaseIdempotent ==
    [][/\ ReleaseStep =>
            \E w \in Entries(instances) :
                /\ instances' = SelectSeq(instances, LAMBDA v : v # w)
                /\ w.collection_id \notin Keys(instances')
                /\ finalized[w.rag] = 0
                /\ finalized' = [finalized EXCEPT ![w.rag] = 1]
       /\ \A cid \in Tenants :
            cid \notin Keys(instances) /\ Release("releaser", cid)
                => UNCHANGED <<instances, finalized, lock, pc>>
       /\ pc["releaser"] = "release_fin" /\ pc'["releaser"] # "release_fin"
            => /\ UNCHANGED <<instances, finalized>>
               /\ pc'["releaser"] = "idle"]_vars

\* release() popped the newer of two entries and awaits its
\* finalize_storages(); the older one is pooled as before.
C24_Witness ==
    /\ pc["releaser"] = "release_fin"
    /\ nextRag = 2
    /\ Len(instances) = 1 /\ instances[1].rag = 1
    /\ finalized[1] = 0 /\ finalized[2] = 1

\* A step in which the get() of c finds its collection pooled and returns.
HitStep(c) == pc[c] = "get_wait" /\ pc'[c] = "inserting"

\* A step in which the get() of c stores the instance it constructed and
\* returns it.
CreatedStep(c) == pc[c] = "get_create" /\ pc'[c] = "inserting"

\* C25: a get(t) that finds t pooled returns in one step, without awaiting
\* the backend: it constructs and finalizes nothing, the pooled
\* collection ids stay the same, the other entries keep their last_used
\* and their order, the entry of t becomes the most recently used with
\* last_used set to the clock, and the LightRAG object returned is the
\* pooled one, which from the get that constructed and returned it until
\* its removal is the same object.
C25_HitOnlyTouchesRecency ==
    [][/\ \A c \in Callers :
            HitStep(c) =>
                LET t == job[c].collection_id
                    others(d) == SelectSeq(d, LAMBDA w : w.collection_id # t)
                IN /\ t \in Keys(instances)
                   /\ nextRag' = nextRag
                   /\ finalized' = finalized
                   /\ lock' = Free /\ lock = Free
                   /\ Len(instances') = Len(instances)
                   /\ others(instances') = others(instances)
                   /\ instances'[Len(instances')] =
                         [collection_id |-> t, rag |-> Rag(t), last_used |-> now]
                   /\ held'[c] = Rag(t)
       /\ \A c \in Callers :
            CreatedStep(c) =>
                \E w \in Entries(instances') :
                    w.collection_id = job[c].collection_id /\ w.rag = held'[c]
       /\ \A v \in Entries(instances), w \in Entries(instances') :
            v.collection_id = w.collection_id => v.rag = w.rag]_vars

\* With t-1 and then t_1 pooled at time 0, a get for t-1 at time 1 was a
\* hit: nothing was constructed or finalized, t-1 is now the most recently
\* used entry and t_1 kept its last_used.
C25_Witness ==
    /\ nextRag = 2
    /\ \A rag \in Rags : finalized[rag] = 0
    /\ instances = <<[collection_id |-> "t_1", rag |-> 2, last_used |-> 0],
                     [collection_id |-> "t-1", rag |-> 1, last_used |-> 1]>>
    /\ \E c \in Callers : Inserting(c) /\ held[c] = 1

\* C26: the pool operations exclude each other: at most one of get (past
\* the hit test), release, cleanup_expired and close_all is under way, and
\* it holds the lock; a get returns only when no other operation is under
\* way, and the LightRAG object it returns is pooled and has not reached
\* finalize_storages().
C26_PoolOperationsExclusive ==
    [][/\ Cardinality({p \in PoolClients : pc'[p] \in LockedSections}) <= 1
       /\ \A p \in PoolClients : pc'[p] \in LockedSections => lock' = p
       /\ \A c \in Callers :
            HitStep(c) \/ CreatedStep(c) =>
                /\ \A p \in PoolClients \ {c} : pc[p] \notin LockedSections
                /\ finalized'[held'[c]] = 0
                /\ \E w \in Entries(instances') : w.rag = held'[c]]_vars

\* A get found its collection pooled and returned the instance while
\* another caller waits for the lock, after cleanup_expired had removed
\* and finalized another instance.
C26_Witness ==
    /\ \E c \in Callers : Inserting(c) /\ held[c] = 2 /\ finalized[2] = 0
    /\ \E c \in Callers : pc[c] = "get_wait"
    /\ finalized[1] = 1
    /\ cleaned = 1

\* A step in which the eviction loop of the get() of c pops an entry.
EvictStep(c) == pc'[c] = "get_evict" /\ instances' # instances

\* C27: however misses interleave, a get evicts only when the pool holds
\* max_instances entries, then evicts one entry, once, and goes on to
\* construct; a miss below capacity removes and finalizes nothing; and the
\* new entry is stored into a pool of fewer than max_instances entries.
C27_NoOverEviction ==
    [][\A c \in Callers :
          /\ EvictStep(c) =>
                /\ pc[c] = "get_wait"
                /\ Len(instances) = max_instances
                /\ instances' = Tail(instances)
                /\ \E rag \in Rags : finalized' = [finalized EXCEPT ![rag] = @ + 1]
          /\ pc[c] = "get_evict" /\ pc'[c] # "get_evict" =>
                /\ pc'[c] = "get_create"
                /\ UNCHANGED <<instances, finalized>>
          /\ pc[c] = "get_wait" /\ pc'[c] = "get_create" =>
                /\ Len(instances) < max_instances
                /\ UNCHANGED <<instances, finalized>>
          /\ CreatedStep(c) =>
                /\ Len(instances) < max_instances
                /\ Len(instances') = Len(instances) + 1
                /\ UNCHANGED finalized]_vars

\* Two concurrent misses at capacity: one get has evicted an entry and
\* awaits its finalize_storages(), the get of another collection that is
\* not pooled waits for the lock.
C27_Witness ==
    \E c, d \in Callers :
        /\ pc[c] = "get_evict"
        /\ pc[d] = "get_wait"
        /\ job[d].collection_id \notin Keys(instances)
        /\ job[d].collection_id # job[c].collection_id
        /\ Len(instances) = max_instances - 1
        /\ nextRag = max_instances
        /\ finalized[1] = 1 /\ finalized[2] = 0

\* The LightRAG objects of the entries of d.
Pooled(d) == {d[i].rag : i \in 1..Len(d)}

\* C28: a LightRAG object enters the pool only when the get that
\* constructed it stores it, new and not finalized; finalize_storages() is
\* reached only for an object that is pooled, and for each object at most
\* once; an object leaves the pool only with its finalize_storages()
\* reached; an object whose finalize_storages() was reached is in the dict
\* only while the close_all that reached it still holds the lock; and
\* what a get returns is pooled and not finalized.
C28_HandleOwnership ==
    [][/\ finalized' # finalized =>
            \A rag \in Rags :
                /\ finalized'[rag] <= 1
                /\ finalized'[rag] # finalized[rag] =>
                      rag \in Pooled(instances) /\ finalized[rag] = 0
       /\ instances' # instances =>
            /\ \A rag \in Pooled(instances) \ Pooled(instances') :
                  finalized'[rag] = 1
            /\ \A rag \in Pooled(instances') \ Pooled(instances) :
                  /\ rag = nextRag
                  /\ finalized'[rag] = 0
                  /\ \E c \in Callers : CreatedStep(c) /\ held[c] = rag
       /\ \A rag \in Pooled(instances') :
            finalized'[rag] = 1 =>
                \E p \in PoolClients : pc'[p] = "close_fin" /\ lock' = p
       /\ nextRag' >= nextRag
       /\ \A c \in Callers :
            pc'[c] = "get_create" /\ pc[c] # "get_create" =>
                nextRag' = nextRag + 1 /\ held'[c] = nextRag'
       /\ \A c \in Callers :
            HitStep(c) \/ CreatedStep(c) =>
                held'[c] \in Pooled(instances') /\ finalized'[held'[c]] = 0]_vars

\* Three objects were constructed: the first was evicted by a get and the
\* second removed by release or cleanup_expired, each finalized once; the
\* third is pooled and not finalized.
C28_Witness ==
    /\ nextRag = 3
    /\ finalized[1] = 1 /\ finalized[2] = 1 /\ finalized[3] = 0
    /\ evicted # ""
    /\ Pooled(instances) = {3}
    /\ lock = Free

\* The entries of d idle for longer than ttl_seconds at the time at.
Idle(d, at) == {w \in Entries(d) : at - w.last_used > ttl_seconds}

\* C29: cleanup_expired lists the entries idle for longer than ttl_seconds,
\* each once; it visits the list in order, and the k-th step removes the
\* entry of the k-th id and no other, leaves the others in their order and
\* reaches finalize_storages() of the removed instance, for the first
\* time; it returns only with the whole list visited, and returns the
\* length of the list, which is the number of entries it removed; with no
\* entry idle for that long it returns 0 and changes nothing.
C29_CleanupReturnsCount ==
    [][/\ pc'["reaper"] = "cleanup_fin" /\ instances' # instances =>
            LET all == expired'
                k == Len(expired') - Len(todo')
            IN /\ k \in 1..Len(all)
               /\ todo' = SubSeq(all, k + 1, Len(all))
               /\ IF pc["reaper"] = "idle"
                    THEN /\ k = 1
                         /\ {all[i] : i \in 1..Len(all)} =
                               {w.collection_id : w \in Idle(instances, now)}
                         /\ Len(all) = Cardinality(Idle(instances, now))
                    ELSE /\ k = Len(expired) - Len(todo) + 1
                         /\ all = expired
               /\ \E w \in Entries(instances) :
                    /\ w.collection_id = all[k]
                    /\ instances' = SelectSeq(instances, LAMBDA v : v # w)
                    /\ Len(instances') = Len(instances) - 1
                    /\ finalized[w.rag] = 0
                    /\ finalized' = [finalized EXCEPT ![w.rag] = 1]
       /\ pc["reaper"] = "cleanup_fin" /\ pc'["reaper"] = "idle" =>
            /\ todo = <<>>
            /\ cleaned' = Len(expired)
            /\ UNCHANGED <<instances, finalized>>
       /\ Idle(instances, now) = {} /\ CleanupExpired("reaper") =>
            /\ cleaned' = 0
            /\ UNCHANGED <<instances, finalized>>]_vars

\* Of two entries, t-1 last used at time 0 and t_1 at time 1,
\* cleanup_expired at time 1 removed and finalized the first, kept the
\* second and returned 1.
C29_Witness ==
    /\ pc["reaper"] = "idle"
    /\ cleaned = 1
    /\ nextRag = 2
    /\ finalized[1] = 1 /\ finalized[2] = 0
    /\ instances = <<[collection_id |-> "t_1", rag |-> 2, last_used |-> 1]>>
    /\ lock = Free

\* C30: close_all reaches finalize_storages() of the entries it finds, in
\* their order, each for the first time; the dict is unchanged meanwhile;
\* when the last one returned or raised, every entry has been finalized
\* once, the dict is cleared and the lock released; on an empty pool it
\* finalizes nothing. So of the two close_all calls of a shutdown, the
\* second finalizes no object the first did.
C30_CloseAllClosesOnce ==
    [][\A p \in PoolClients :
          /\ pc'[p] = "close_fin" /\ (pc[p] # "close_fin" \/ todo' # todo) =>
                LET k == Len(instances) - Len(todo')
                IN /\ instances' = instances
                   /\ k \in 1..Len(instances)
                   /\ k = (IF pc[p] = "close_fin"
                              THEN Len(instances) - Len(todo) + 1 ELSE 1)
                   /\ todo' = [i \in 1..(Len(instances) - k) |-> instances[k + i].rag]
                   /\ finalized[instances[k].rag] = 0
                   /\ finalized' = [finalized EXCEPT ![instances[k].rag] = 1]
          /\ pc[p] = "close_fin" /\ pc'[p] # "close_fin" =>
                /\ todo = <<>>
                /\ \A w \in Entries(instances) : finalized[w.rag] = 1
                /\ finalized' = finalized
                /\ instances' = <<>>
                /\ lock' = Free
          /\ pc[p] \notin {"close_fin", "done", "exited"} /\ pc'[p] \in {"done", "exited"} =>
                /\ instances = <<>> /\ instances' = <<>>
                /\ finalized' = finalized]_vars

\* Both shutdowns are over, the one the signal started and the one of
\* main(): the two instances constructed were finalized once each, by
\* close_all, whose last finalize_storages() raised, and the pool is
\* empty.
C30_Witness ==
    /\ pc["sig"] = "done" /\ pc["loop"] = "exited"
    /\ instances = <<>>
    /\ nextRag = 2
    /\ finalized[1] = 1 /\ finalized[2] = 1
    /\ evicted = "" /\ cleaned = 0
    /\ warned
    /\ lock = Free

\* C31: while a LightRAG object is pooled, the last_used of its entry never
\* decreases (the clock does not go back); it is the clock's value when
\* the entry is stored, and it changes only in a hit of a get for its
\* collection, which sets it to the clock's value.
C31_LastUsedMonotonic ==
    [][/\ \A v \in Entries(instances), w \in Entries(instances') :
            v.rag = w.rag =>
                /\ w.last_used >= v.last_used
                /\ w.last_used # v.last_used =>
                      /\ w.last_used = now
                      /\ \E c \in Callers :
                            HitStep(c) /\ job[c].collection_id = v.collection_id
       /\ \A w \in Entries(instances') :
            w.rag \notin Pooled(instances) => w.last_used = now
       /\ now' >= now]_vars

\* The entry stored first, at time 0, was hit at time 1; the one stored
\* second, at time 0 as well, kept its last_used; no call is under way.
C31_Witness ==
    /\ nextRag = 2
    /\ Len(instances) = 2
    /\ instances[1].rag = 2 /\ instances[1].last_used = 0
    /\ instances[2].rag = 1 /\ instances[2].last_used = 1
    /\ \A c \in Callers : pc[c] = "idle"
    /\ lock = Free

\* The process() call of c is in flight: it waits for the semaphore or is
\* inside it.
InFlight(c) == pc[c] = "sem_wait" \/ InPipeline(c)

\* C32: every way out of "async with self._semaphore" gives the slot back,
\* be it the return of a result, successful or not, or a cancellation, and
\* changes the place of no other call; a call cancelled while it waits for
\* the semaphore takes none; so with no process() call in flight all
\* max_workers slots are free.
C32_SlotAlwaysReleased ==
    [][/\ \A c \in Callers :
            /\ InPipeline(c) /\ ~InPipeline(c)' =>
                  /\ semaphore' = semaphore + 1
                  /\ \A d \in Callers \ {c} : pc'[d] = pc[d]
            /\ pc[c] = "sem_wait" /\ ~InFlight(c)' =>
                  /\ semaphore' = semaphore
                  /\ \A d \in Callers \ {c} : pc'[d] = pc[d]
       /\ (\A c \in Callers : ~InFlight(c))' => semaphore' = max_workers]_vars

\* One call succeeded, one failed in ainsert and one was cancelled during
\* the construction of its instance, which it leaves unpooled; no call is
\* in flight and both slots are free.
C32_Witness ==
    /\ \A c \in Callers : ~InFlight(c)
    /\ \E c \in Callers : pc[c] = "cancelled"
    /\ jobs_processed = 1 /\ jobs_failed = 1
    /\ result = ProcessingResult(FALSE, "insert", 0)
    /\ nextRag = 2 /\ Len(instances) = 1
    /\ \A rag \in Rags : finalized[rag] = 0
    /\ semaphore = max_workers
    /\ lock = Free

\* stop() was called on the started consumer: the stop of the
\* AIOKafkaConsumer is awaited or over.
StopCalled == transport \in {"closing", "closed"}

\* C33: once stop() was called on the started consumer, consume() hands
\* no further record to the handler: a record that the iterator delivers
\* after that ends the loop, is not parsed and causes no commit, and the
\* committed offset of its partition never gets past it.
C33_NoDispatchAfterStop ==
    [][/\ StopCalled /\ pc["loop"] = "fetching" =>
            /\ pc'["loop"] \in {"fetching", "ended", "crashed"}
            /\ job'["loop"] = None
            /\ committed' = committed
            /\ \A p \in Partitions :
                  position'[p] # position[p] =>
                      /\ pc'["loop"] = "ended"
                      /\ rec'[p][Len(rec'[p])] =
                            [status |-> "dropped", commits |-> 0, pending |-> FALSE]
       /\ \A r \in Records :
            Status(r) = "dropped" =>
                /\ rec'[r[1]][r[2]] = rec[r[1]][r[2]]
                /\ ~Acknowledged(r)']_vars

\* A first record was processed and committed; stop() was called, the
\* iterator delivered the next record of the same partition, and the loop
\* ended without handling or committing it.
C33_Witness ==
    /\ pc["loop"] = "ended"
    /\ \E p \in Partitions :
          /\ Len(rec[p]) = 2
          /\ rec[p][1].status = "success" /\ committed[p] = 1
          /\ rec[p][2].status = "dropped"
    /\ jobs_processed = 1

\* The object rag is pooled and its entry idle for longer than ttl_seconds.
Stale(rag) == \E w \in Idle(instances, now) : w.rag = rag

\* C34: while the agent runs, an entry idle for longer than ttl_seconds
\* does not stay so for ever: the reaper, whatever the pipeline does
\* meanwhile and whether a finalize_storages() of an earlier round raised
\* or not, removes it, unless a get touched or evicted it first.
C34_StaleEntryEventuallyRemoved ==
    \A rag \in 1..MaxCalls : Stale(rag) ~> ~Stale(rag)

\* The reaper removed the only entry, stale at time 1, and returned 1; its
\* finalize_storages() raised and the reaper is asleep again.
C34_Witness ==
    /\ pc["reaper"] = "idle"
    /\ cleaned = 1
    /\ warned
    /\ now = 1
    /\ nextRag = 1 /\ finalized[1] = 1
    /\ instances = <<>>

\* The job of c carries pre-extracted text.
TextGiven(c) == job[c] # None /\ job[c].content # None /\ job[c].content.text # ""

\* The html of the job of c is there and does not decompress.
Undecodable(c) ==
    /\ job[c] # None /\ job[c].content # None
    /\ job[c].content.html # ""
    /\ decompress_html(job[c].content.html, job[c].content.encoding) = Error

\* The job of c as it would be with the html h under the encoding e.
WithHtml(c, h, e) == [job[c] EXCEPT !.content.html = h, !.content.encoding = e]

\* C35: with pre-extracted text the text handed to LightRAG and the result
\* are those of the text alone, whatever the html and its encoding, and no
\* html can fail the extraction; without text the html is decompressed and
\* cleaned, and one that does not decompress gives a failed result.
C35_TextPreferred ==
    [][\A c \in Workers :
          /\ (TextGiven(c) /\ Enter(c)) =>
                /\ pc'[c] = "get_wait"
                /\ jobs_failed' = jobs_failed
          /\ (TextGiven(c) /\ pc'[c] = "inserting" /\ pc[c] # "inserting") =>
                /\ ainsert'[c][1].text = job[c].content.text
                /\ \A h \in {x.html : x \in ExtractContents}, e \in {x.encoding : x \in ExtractContents} :
                      extract_text(WithHtml(c, h, e)) = job[c].content.text
          /\ (TextGiven(c) /\ Inserted(c)) =>
                result' = ProcessingResult(TRUE, "", Len(job[c].content.text))
          /\ (job[c] # None /\ job[c].content # None /\ job[c].content.text = "" /\ Enter(c)) =>
                IF Undecodable(c)
                    THEN /\ result' = ProcessingResult(FALSE, "extract", 0)
                         /\ jobs_failed' = jobs_failed + 1
                         /\ pc'[c] = "idle"
                ELSE IF job[c].content.html = ""
                    THEN ~result'.success
                ELSE LET text == clean_html_to_text(decompress_html(job[c].content.html, job[c].content.encoding))
                     IN IF text = "" THEN ~result'.success
                        ELSE pc'[c] = "get_wait"
          /\ (~TextGiven(c) /\ pc'[c] = "inserting" /\ pc[c] # "inserting") =>
                ainsert'[c][1].text =
                    clean_html_to_text(decompress_html(job[c].content.html, job[c].content.encoding))]_vars

\* A job with text and a corrupt blob under an unknown encoding was stored,
\* after a job without text whose blob was corrupt had failed.
C35_Witness ==
    /\ jobs_failed = 1
    /\ jobs_processed = 1
    /\ result = ProcessingResult(TRUE, "", Len("hello world"))
    /\ docs[workspace_name("t2")] # {}
    /\ \E c \in Workers :
          /\ pc[c] = "sem_wait"
          /\ TextGiven(c) /\ job[c].content.html = "!corrupt" /\ job[c].content.encoding = "zstd"

\* C36: with every call of the backend ending, a process() call that was
\* made returns a ProcessingResult, whatever other calls, the reaper,
\* release and close_all do meanwhile: none is left waiting for the
\* semaphore or the lock, and none ends by raising.
C36_ProcessReturns ==
    /\ \A c \in Tasks : (pc[c] # "idle") ~> (pc[c] = "idle" /\ job[c] = None)
    /\ [](\A c \in Tasks : pc[c] \in {"idle", "sem_wait", "get_wait", "get_evict", "get_create", "inserting"})

\* Both slots are taken, by a call whose get() holds the lock while it
\* awaits the construction and by a call that waits for the lock; the third
\* call waits for a slot, and the reaper is ready to take the lock.
C36_Witness ==
    /\ semaphore = 0
    /\ \E c \in Tasks : pc[c] = "get_create" /\ lock = c
    /\ \E c \in Tasks : pc[c] = "get_wait"
    /\ \E c \in Tasks : pc[c] = "sem_wait"
    /\ pc["reaper"] = "idle"

CreateFailedStep(c) == pc[c] = "get_create" /\ pc'[c] \notin {"get_create", "inserting"}

\* C38: a get that misses at capacity pops and finalizes the oldest entry
\* before it constructs; from then on it holds the lock and the pool keeps
\* its max_instances - 1 entries; when the construction fails nothing is
\* put back: the failed get leaves the pool as the eviction left it,
\* without the evicted entry and without an entry for its own collection.
C38_EvictionNotUndone ==
    [][\A c \in Workers :
          /\ EvictStep(c) =>
                /\ Len(instances) = max_instances
                /\ instances' = Tail(instances)
                /\ finalized'[Head(instances).rag] = finalized[Head(instances).rag] + 1
                /\ evicted' = Head(instances).collection_id
          /\ pc[c] = "get_evict" =>
                /\ lock = c
                /\ Len(instances) = max_instances - 1
                /\ evicted \notin Keys(instances)
                /\ instances' = instances
                /\ pc'[c] \in {"get_evict", "get_create"}
          /\ pc[c] = "get_create" =>
                /\ lock = c
                /\ evicted' = evicted
                /\ instances' # instances => CreatedStep(c)
          /\ CreateFailedStep(c) =>
                /\ instances' = instances
                /\ Len(instances') < max_instances
                /\ job[c].collection_id \notin Keys(instances')
                /\ finalized' = finalized
                /\ result' = ProcessingResult(FALSE, "create", 0)]_vars

\* The pool held max_instances entries; a get for a third collection
\* evicted and finalized the oldest, its construction failed, and the pool
\* is left with max_instances - 1 entries, the evicted one not among them.
C38_Witness ==
    /\ nextRag = max_instances + 1
    /\ Len(instances) = max_instances - 1
    /\ Pooled(instances) = {2}
    /\ finalized[1] = 1 /\ finalized[2] = 0 /\ finalized[3] = 0
    /\ evicted # "" /\ evicted \notin Keys(instances)
    /\ result = ProcessingResult(FALSE, "create", 0)
    /\ jobs_failed = 1 /\ jobs_processed = 2
    /\ lock = Free
    /\ \A p \in PoolClients : pc[p] = "idle"

\* The object rag was constructed and is neither pooled, nor under
\* construction, nor has its finalize_storages() been reached.
Unclosed(rag) ==
    /\ rag <= nextRag
    /\ finalized[rag] = 0
    /\ rag \notin Pooled(instances)
    /\ \A c \in Callers : ~(pc[c] = "get_create" /\ held[c] = rag)

\* The shutdown() that main() calls after run() has returned.
ShutdownComplete == pc["loop"] = "exited"

\* C39: once the shutdown() of main() has returned, the consumer is
\* stopped, no pool operation of the loop is under way and the pool is
\* empty; at any time an object that is neither pooled nor finalized is
\* one whose construction failed. So every object that was ever pooled,
\* also one constructed after the close_all of a shutdown() started by a
\* signal, has had its finalize_storages() reached by then.
C39_AllClosedAtExit ==
    [][/\ ShutdownComplete' =>
             /\ instances' = <<>>
             /\ ~running' /\ transport' = "closed"
             /\ lock' # "loop" /\ job'["loop"] = None
             /\ pc'["reaper"] = "cancelled"
             /\ \A rag \in Rags : rag \in Pooled(instances) => finalized'[rag] >= 1
       /\ \A rag \in Rags :
             Unclosed(rag)' /\ ~Unclosed(rag) =>
                 CreateFailedStep("loop") /\ held["loop"] = rag]_vars

\* Two jobs of one collection were stored. The first object was closed by
\* the close_all of the shutdown() that a signal started, while the call
\* for the second job waited; its get then constructed the second object,
\* which the shutdown() of main() closed.
C39_Witness ==
    /\ ShutdownComplete
    /\ pc["sig"] = "done"
    /\ nextRag = 2
    /\ finalized[1] = 1 /\ finalized[2] = 1
    /\ instances = <<>>
    /\ now = 0 /\ evicted = "" /\ cleaned = 0
    /\ jobs_processed = 2 /\ jobs_failed = 0
    /\ Cardinality({ws \in Workspaces : docs[ws] # {}}) = 1

\* A step in which the process() call of c returns.
ReturnStep(c) == pc[c] # "idle" /\ pc'[c] = "idle"

\* C40: a step in which a process() call returns its result adds one to
\* jobs_processed if the result reports success and one to jobs_failed if
\* it reports a failure, and leaves the other counter; no other step
\* changes a counter. Both start at zero, so that their sum is the number
\* of calls that have returned.
C40_CountersMatchResults ==
    [][/\ \A c \in Tasks :
             ReturnStep(c) =>
                 /\ result' # None
                 /\ IF result'.success
                      THEN /\ jobs_processed' = jobs_processed + 1
                           /\ jobs_failed' = jobs_failed
                      ELSE /\ jobs_failed' = jobs_failed + 1
                           /\ jobs_processed' = jobs_processed
       /\ (\A c \in Tasks : ~ReturnStep(c)) =>
             /\ jobs_processed' = jobs_processed
             /\ jobs_failed' = jobs_failed
       /\ Cardinality({c \in Tasks : ReturnStep(c)}) <= 1]_vars

\* Four calls have returned: two stored their document, one failed in the
\* construction of its LightRAG object and the last one in the extraction.
C40_Witness ==
    /\ jobs_processed = 2
    /\ jobs_failed = 2
    /\ \A c \in Tasks : pc[c] = "idle"
    /\ result = ProcessingResult(FALSE, "extract", 0)
    /\ nextRag > Cardinality({rag \in Rags : rag <= nextRag /\ (finalized[rag] > 0 \/ rag \in Pooled(instances))})

====
